---- MODULE Spec2Model ----
(* Inventory manager (src/main.rs): the in-memory ledger of MyApp (items,      *)
(* transactions, next_item_id), the three forms, the date and tab selection,   *)
(* and the handlers MyApp::update runs on a frame.                             *)
(*                                                                             *)
(* Text is a sequence of one-character strings, so that trim() and             *)
(* parse::<i32>() are computed.  Quantities are i32: TLC's integers are 32 bit *)
(* too, so overflow is decided before a sum is computed and the wrapped result *)
(* is built from parts that stay in range.                                     *)
(*                                                                             *)
(* A step is one frame in which the user clicks something: a date combo box,   *)
(* a tab, "Add Item", "Receive" or "Ship".  What the user typed or selected in *)
(* a form on the frames before a button click is the input of that click (its  *)
(* "fill"); the form variables hold what the handler leaves in the form.       *)
(* The inventory table (inventory_tab_ui, inventory_filter) and the status bar *)
(* only read the state and are left out.                                       *)
EXTENDS Integers, Sequences, FiniteSets, TLC

(* ------------------------------------------------------------------ bounds *)
MaxItems == 2
MaxTxns == 2
MaxViewLog == 22

(* ------------------------------------------------------- program constants *)
I32Max == 2147483647
I32Min == -I32Max - 1
RecentLimit == 20
DefaultYear == 2025
DefaultMonth == 1
DefaultDay == 1

VARIABLES
    crashed,           \* the process has panicked (an overflow with overflow checks on)
    items,             \* MyApp.items
    initial_qty,       \* history: the quantity each item was created with
    transactions,      \* MyApp.transactions
    next_item_id,      \* MyApp.next_item_id
    selected_tab,      \* MyApp.selected_tab
    selected_year, selected_month, selected_day,
    add_item_form, warehousing_form, shipping_form,
    recent_view        \* the "Recent transactions" rows last rendered

ledger == <<items, initial_qty, transactions, next_item_id>>
date_vars == <<selected_year, selected_month, selected_day>>
form_vars == <<add_item_form, warehousing_form, shipping_form>>
vars == <<crashed, items, initial_qty, transactions, next_item_id,
          selected_tab, selected_year, selected_month, selected_day,
          add_item_form, warehousing_form, shipping_form, recent_view>>

(* -------------------------------------------------------------------- text *)
Whitespace == {" ", "\t"}
Digits == {"0", "1", "2", "3", "4", "5", "6", "7", "8", "9"}

DigitVal(c) ==
    CASE c = "0" -> 0 [] c = "1" -> 1 [] c = "2" -> 2 [] c = "3" -> 3 [] c = "4" -> 4
      [] c = "5" -> 5 [] c = "6" -> 6 [] c = "7" -> 7 [] c = "8" -> 8 [] c = "9" -> 9

RECURSIVE TrimStart(_)
TrimStart(s) ==
    IF s # <<>> /\ Head(s) \in Whitespace THEN TrimStart(Tail(s)) ELSE s

RECURSIVE TrimEnd(_)
TrimEnd(s) ==
    IF s # <<>> /\ s[Len(s)] \in Whitespace
    THEN TrimEnd(SubSeq(s, 1, Len(s) - 1))
    ELSE s

\* str::trim
Trim(s) == TrimEnd(TrimStart(s))

(* ------------------------------------------------------------ i32 arithmetic *)
\* a + b leaves the i32 range (decided without computing the sum)
AddOverflows(a, b) ==
    \/ b > 0 /\ a > I32Max - b
    \/ b < 0 /\ a < I32Min - b

\* the two's-complement result of a + b
WrappingAdd(a, b) ==
    IF b > 0 /\ a > I32Max - b THEN (a - I32Max - 1) + (b - I32Max - 1)
    ELSE IF b < 0 /\ a < I32Min - b THEN (a + I32Max + 1) + (b + I32Max + 1)
    ELSE a + b

\* sign * qty with sign in {1, -1}: only -1 * i32::MIN overflows
MulOverflows(sign, qty) == sign = -1 /\ qty = I32Min

WrappingMul(sign, qty) ==
    IF MulOverflows(sign, qty) THEN I32Min ELSE sign * qty

\* i32::from_str on the digits after the sign: checked_mul(10) then
\* checked_add / checked_sub of each digit; any failure is Err
RECURSIVE ParseDigits(_, _, _)
ParseDigits(s, acc, positive) ==
    IF s = <<>> THEN [ok |-> TRUE, val |-> acc]
    ELSE IF Head(s) \notin Digits THEN [ok |-> FALSE, val |-> 0]
    ELSE IF positive
    THEN IF acc > I32Max \div 10 \/ acc * 10 > I32Max - DigitVal(Head(s))
         THEN [ok |-> FALSE, val |-> 0]
         ELSE ParseDigits(Tail(s), acc * 10 + DigitVal(Head(s)), positive)
    ELSE IF acc < -(I32Max \div 10) \/ acc * 10 < I32Min + DigitVal(Head(s))
         THEN [ok |-> FALSE, val |-> 0]
         ELSE ParseDigits(Tail(s), acc * 10 - DigitVal(Head(s)), positive)

\* str::parse::<i32>
ParseI32(s) ==
    IF s = <<>> THEN [ok |-> FALSE, val |-> 0]
    ELSE IF Head(s) \in {"+", "-"}
    THEN IF Len(s) = 1 THEN [ok |-> FALSE, val |-> 0]
         ELSE ParseDigits(Tail(s), 0, Head(s) = "+")
    ELSE ParseDigits(s, 0, TRUE)

\* quantity_text.trim().parse().unwrap_or(0)
ParseOrZero(text) ==
    LET r == ParseI32(Trim(text)) IN IF r.ok THEN r.val ELSE 0

(* ------------------------------------------------------------------ inputs *)
Tabs == {"Inventory", "AddItem", "Warehousing", "Shipping"}
\* the dates the user picks with the three combo boxes: a year of 2000..=2035, a
\* month of 1..=12 and a day of 1..=31, none checked against a calendar
Dates == {<<2025, 1, 1>>, <<2024, 12, 31>>}

MinText == <<"-", "2", "1", "4", "7", "4", "8", "3", "6", "4", "8">>

\* what the user has typed into the Add Item form when the button is clicked
AddItemFills ==
    { [name |-> <<" ", "B", " ">>, sku |-> <<"B", "1">>, unit |-> <<"e", "a", " ">>,
       location |-> <<" ", "A">>, quantity_text |-> <<"1">>],
      [name |-> <<"N">>, sku |-> <<" ", "N", "1">>, unit |-> <<>>,
       location |-> <<>>, quantity_text |-> <<"-", "1">>],
      [name |-> <<" ">>, sku |-> <<"X">>, unit |-> <<>>,
       location |-> <<>>, quantity_text |-> <<"a", "b", "c">>],
      [name |-> <<"N">>, sku |-> <<>>, unit |-> <<>>,
       location |-> <<>>, quantity_text |-> <<"1">>] }

\* what the user has typed into a movement form when the button is clicked
MovementFills ==
    { [quantity_text |-> <<" ", "1", " ">>, note |-> <<"n">>],
      [quantity_text |-> <<"x">>, note |-> <<>>],
      [quantity_text |-> MinText, note |-> <<>>] }

\* ParseOrZero, tabulated once over the quantity texts the inputs hold
QuantityTexts ==
    {fill.quantity_text : fill \in AddItemFills} \cup
    {fill.quantity_text : fill \in MovementFills} \cup {<<>>}

ParsedQuantity == [text \in QuantityTexts |-> ParseOrZero(text)]

ParseQty(text) == ParsedQuantity[text]

(* ------------------------------------------------------------------- forms *)
AddItemFormDefault ==
    [name |-> <<>>, sku |-> <<>>, unit |-> <<>>, location |-> <<>>,
     quantity_text |-> <<>>, status |-> ""]

MovementFormDefault ==
    [item_index |-> 0, quantity_text |-> <<>>, note |-> <<>>, status |-> ""]

ActiveForm(is_warehousing) ==
    IF is_warehousing THEN warehousing_form ELSE shipping_form

SetActiveForm(is_warehousing, f) ==
    IF is_warehousing
    THEN warehousing_form' = f /\ UNCHANGED shipping_form
    ELSE shipping_form' = f /\ UNCHANGED warehousing_form

MovementTab(is_warehousing) == IF is_warehousing THEN "Warehousing" ELSE "Shipping"

(* ------------------------------------------------------ recent transactions *)
RECURSIVE Rev(_)
Rev(s) == IF s = <<>> THEN <<>> ELSE Append(Rev(Tail(s)), Head(s))

Take(s, n) == SubSeq(s, 1, IF Len(s) < n THEN Len(s) ELSE n)

\* items.iter().find(|i| i.id == id).map(name).unwrap_or("?")
RECURSIVE ItemName(_, _)
ItemName(its, id) ==
    IF its = <<>> THEN <<"?">>
    ELSE IF Head(its).id = id THEN Head(its).name
    ELSE ItemName(Tail(its), id)

Row(its, txn) ==
    [date |-> txn.date,
     kind |-> IF txn.txn_type = "Warehousing" THEN "IN" ELSE "OUT",
     item_name |-> ItemName(its, txn.item_id),
     quantity |-> txn.quantity,
     note |-> txn.note]

\* the bug of truncating before reversing: the oldest rows, newest first
RecentTransactions_TakeThenRev(txns) == Rev(Take(txns, RecentLimit))

\* transactions.iter().rev().take(20)
RecentTransactions(txns) == Take(Rev(txns), RecentLimit)

RecentRows(its, txns) ==
    LET recent == RecentTransactions(txns)
    IN [i \in 1..Len(recent) |-> Row(its, recent[i])]

(* -------------------------------------------------------------------- Init *)
Init ==
    /\ crashed = FALSE
    /\ items = <<>>
    /\ initial_qty = <<>>
    /\ transactions = <<>>
    /\ next_item_id = 1
    /\ selected_tab = "Inventory"
    /\ selected_year = DefaultYear
    /\ selected_month = DefaultMonth
    /\ selected_day = DefaultDay
    /\ add_item_form = AddItemFormDefault
    /\ warehousing_form = MovementFormDefault
    /\ shipping_form = MovementFormDefault
    /\ recent_view = <<>>

(* ------------------------------------------------------------- date and tab *)
\* date_picker_ui: the three combo boxes write the selected date
DatePickerUi(date) ==
    /\ ~crashed
    /\ date # <<selected_year, selected_month, selected_day>>
    /\ selected_year' = date[1]
    /\ selected_month' = date[2]
    /\ selected_day' = date[3]
    /\ UNCHANGED <<crashed, ledger, selected_tab, form_vars, recent_view>>

\* the part of movement_tab_ui that runs on every frame the tab is shown
NormalizedForm(form, its) ==
    IF form.item_index >= Len(its) THEN [form EXCEPT !.item_index = 0] ELSE form

\* a tab button is clicked; the central panel then shows the new tab
SelectTab(tab) ==
    /\ ~crashed
    /\ tab # selected_tab
    /\ selected_tab' = tab
    /\ IF tab \in {"Warehousing", "Shipping"} /\ items # <<>>
       THEN /\ SetActiveForm(tab = "Warehousing",
                             NormalizedForm(ActiveForm(tab = "Warehousing"), items))
            /\ recent_view' = RecentRows(items, transactions)
       ELSE UNCHANGED <<warehousing_form, shipping_form, recent_view>>
    /\ UNCHANGED <<crashed, ledger, date_vars, add_item_form>>

(* ---------------------------------------------------------------- Add Item *)
\* the bug of testing the fields without trimming them
MissingRequiredField_Untrimmed(fill) ==
    fill.name = <<>> \/ fill.sku = <<>>

MissingRequiredField(fill) ==
    Trim(fill.name) = <<>> \/ Trim(fill.sku) = <<>>

NewItem(fill, id) ==
    [id |-> id,
     name |-> Trim(fill.name),
     sku |-> Trim(fill.sku),
     unit |-> Trim(fill.unit),
     location |-> Trim(fill.location),
     quantity_on_hand |-> ParseQty(fill.quantity_text)]

\* the bug of allocating the id before validating
AddItemReject_ConsumesId(fill) ==
    /\ add_item_form' = [name |-> fill.name, sku |-> fill.sku, unit |-> fill.unit,
                         location |-> fill.location,
                         quantity_text |-> fill.quantity_text,
                         status |-> "Name and SKU are required"]
    /\ next_item_id' = next_item_id + 1
    /\ UNCHANGED <<items, initial_qty, transactions>>

AddItemReject(fill) ==
    /\ add_item_form' = [name |-> fill.name, sku |-> fill.sku, unit |-> fill.unit,
                         location |-> fill.location,
                         quantity_text |-> fill.quantity_text,
                         status |-> "Name and SKU are required"]
    /\ UNCHANGED ledger

AddItemCommit(fill) ==
    /\ items' = Append(items, NewItem(fill, next_item_id))
    /\ initial_qty' = Append(initial_qty, ParseQty(fill.quantity_text))
    /\ next_item_id' = next_item_id + 1
    /\ add_item_form' = [AddItemFormDefault EXCEPT !.status = "Item added"]
    /\ UNCHANGED transactions

\* add_item_tab_ui on the frame the "Add Item" button is clicked, the form holding fill
AddItemClick(fill) ==
    /\ ~crashed
    /\ selected_tab = "AddItem"
    /\ UNCHANGED <<crashed, selected_tab, date_vars,
                   warehousing_form, shipping_form, recent_view>>
    /\ IF MissingRequiredField(fill) THEN AddItemReject(fill) ELSE AddItemCommit(fill)

(* ---------------------------------------------------------------- movements *)
Sign(is_warehousing) == IF is_warehousing THEN 1 ELSE -1

Adj(is_warehousing, qty) == WrappingMul(Sign(is_warehousing), qty)

NewQoh(qoh, adj) == WrappingAdd(qoh, adj)

\* `sign * qty` or `quantity_on_hand + adj` overflows: a build with overflow
\* checks (the dev profile) panics there, before anything is written, and a build
\* without them (the release profile) wraps; MovementClick allows both
MovementPanics(is_warehousing, qoh, qty) ==
    \/ MulOverflows(Sign(is_warehousing), qty)
    \/ AddOverflows(qoh, Adj(is_warehousing, qty))

InsufficientStock(new_qoh) == new_qoh < 0

NewTransaction(is_warehousing, item, qty, note) ==
    [date |-> <<selected_year, selected_month, selected_day>>,
     item_id |-> item.id,
     quantity |-> qty,
     note |-> note,
     txn_type |-> IF is_warehousing THEN "Warehousing" ELSE "Shipping"]

\* the bug of inserting the new transaction at the head of the log
PushTransaction_AtFront(txns, txn) == <<txn>> \o txns

PushTransaction(txns, txn) == Append(txns, txn)

\* the bug of writing the stock before checking it
MovementReject_WritesStock(is_warehousing, idx, fill, new_qoh) ==
    /\ SetActiveForm(is_warehousing,
                     [item_index |-> idx, quantity_text |-> fill.quantity_text,
                      note |-> fill.note, status |-> "Insufficient stock"])
    /\ items' = [items EXCEPT ![idx + 1].quantity_on_hand = new_qoh]
    /\ UNCHANGED transactions

MovementReject(is_warehousing, idx, fill, new_qoh) ==
    /\ SetActiveForm(is_warehousing,
                     [item_index |-> idx, quantity_text |-> fill.quantity_text,
                      note |-> fill.note, status |-> "Insufficient stock"])
    /\ UNCHANGED <<items, transactions>>

MovementCommit(is_warehousing, idx, fill, new_qoh) ==
    /\ items' = [items EXCEPT ![idx + 1].quantity_on_hand = new_qoh]
    /\ transactions' =
          PushTransaction(transactions,
                          NewTransaction(is_warehousing, items[idx + 1],
                                         ParseQty(fill.quantity_text), fill.note))
    /\ SetActiveForm(is_warehousing,
                     [item_index |-> idx, quantity_text |-> <<>>, note |-> <<>>,
                      status |-> "Recorded"])

\* movement_tab_ui on the frame "Receive" / "Ship" is clicked, the form holding
\* the chosen item index and fill; the recent transactions are drawn on the same
\* frame, after the click is handled
MovementClick(is_warehousing, idx, fill) ==
    /\ ~crashed
    /\ selected_tab = MovementTab(is_warehousing)
    /\ items # <<>>
    /\ idx < Len(items)
    /\ UNCHANGED <<initial_qty, next_item_id, selected_tab, date_vars, add_item_form>>
    /\ LET qty == ParseQty(fill.quantity_text)
           qoh == items[idx + 1].quantity_on_hand
           new_qoh == NewQoh(qoh, Adj(is_warehousing, qty))
       IN \/ /\ MovementPanics(is_warehousing, qoh, qty)
             /\ crashed' = TRUE
             /\ UNCHANGED <<items, transactions, warehousing_form, shipping_form,
                            recent_view>>
          \/ /\ IF InsufficientStock(new_qoh)
                THEN MovementReject(is_warehousing, idx, fill, new_qoh)
                ELSE MovementCommit(is_warehousing, idx, fill, new_qoh)
             /\ recent_view' = RecentRows(items', transactions')
             /\ UNCHANGED crashed

(* -------------------------------------------------------------------- Next *)
Next ==
    \/ \E date \in Dates : DatePickerUi(date)
    \/ \E tab \in Tabs : SelectTab(tab)
    \/ \E fill \in AddItemFills : AddItemClick(fill) /\ Len(items') <= MaxItems
    \/ \E is_warehousing \in BOOLEAN, idx \in 0..(MaxItems - 1), fill \in MovementFills :
          MovementClick(is_warehousing, idx, fill) /\ Len(transactions') <= MaxTxns

Spec == Init /\ [][Next]_vars

(* ------------------------------------------- the view over long transaction logs *)
\* Ledgers the program reaches with more movements than MaxTxns allows Next to
\* record: one item created with an unparsable quantity (0), then n receipts, the
\* k-th of quantity k, entered under dates that ascend or descend with k.
ViewYear(ascending, k) == IF ascending THEN 2000 + k ELSE 2035 - k

ViewLog(ascending, n) ==
    [k \in 1..n |-> [date |-> <<ViewYear(ascending, k), 1, 1>>,
                     item_id |-> 1,
                     quantity |-> k,
                     note |-> <<>>,
                     txn_type |-> "Warehousing"]]

ViewInit ==
    \E ascending \in BOOLEAN, n \in 0..MaxViewLog :
        /\ crashed = FALSE
        /\ items = <<[id |-> 1, name |-> <<"B">>, sku |-> <<"B", "1">>, unit |-> <<>>,
                      location |-> <<>>, quantity_on_hand |-> (n * (n + 1)) \div 2]>>
        /\ initial_qty = <<0>>
        /\ transactions = ViewLog(ascending, n)
        /\ next_item_id = 2
        /\ selected_tab = "Warehousing"
        /\ selected_year = IF n = 0 THEN DefaultYear ELSE ViewYear(ascending, n)
        /\ selected_month = DefaultMonth
        /\ selected_day = DefaultDay
        /\ add_item_form = [AddItemFormDefault EXCEPT !.status = "Item added"]
        /\ warehousing_form =
              [MovementFormDefault EXCEPT !.status = IF n = 0 THEN "" ELSE "Recorded"]
        /\ shipping_form = MovementFormDefault
        /\ recent_view = RecentRows(items, transactions)

ViewNext ==
    \/ \E date \in Dates : DatePickerUi(date)
    \/ \E tab \in Tabs : SelectTab(tab)
    \/ \E is_warehousing \in BOOLEAN, fill \in MovementFills :
          MovementClick(is_warehousing, 0, fill) /\ Len(transactions') <= MaxTxns

SpecView == ViewInit /\ [][ViewNext]_vars

(* ================================================================== claims *)
Min(a, b) == IF a < b THEN a ELSE b

\* the last Min(limit, n) entries of a log of length n, newest first
LastReversed(txns, limit) ==
    [i \in 1..Min(limit, Len(txns)) |-> txns[Len(txns) - i + 1]]

\* C9: the recent-transactions rows are the last min(20, n) entries of the log in
\* reverse insertion order, whatever their dates; and for every limit, reversing
\* and taking limit entries gives the last min(limit, n) entries, newest first
\* (limit 2 after M1, M2, M3 gives [M3, M2]).
C9_RecentIsReverseInsertionOrder ==
    /\ Len(recent_view) = Min(RecentLimit, Len(transactions))
    /\ \A i \in 1..Len(recent_view) :
          LET txn == transactions[Len(transactions) - i + 1]
          IN /\ recent_view[i].date = txn.date
             /\ \E k \in 1..Len(items) :
                   /\ items[k].id = txn.item_id
                   /\ recent_view[i].item_name = items[k].name
             /\ recent_view[i].quantity = txn.quantity
             /\ recent_view[i].note = txn.note
             /\ recent_view[i].kind = (IF txn.txn_type = "Warehousing" THEN "IN" ELSE "OUT")
    /\ RecentTransactions(transactions) = LastReversed(transactions, RecentLimit)
    /\ \A limit \in 0..(RecentLimit + 2) :
          Take(Rev(transactions), limit) = LastReversed(transactions, limit)

\* a log longer than the limit whose dates descend with insertion order
C9_Witness ==
    /\ Len(transactions) > RecentLimit
    /\ Len(recent_view) = RecentLimit
    /\ transactions[1].date[1] > transactions[Len(transactions)].date[1]
    /\ recent_view[1].quantity = Len(transactions)

(* ------------------------------------------ exact (unbounded) integer sums *)
\* an integer as hi * 65536 + lo with lo in 0..65535, so that sums of i32
\* values are compared exactly
Wide(x) == [hi |-> x \div 65536, lo |-> x % 65536]

WideAdd(a, b) ==
    [hi |-> a.hi + b.hi + ((a.lo + b.lo) \div 65536), lo |-> (a.lo + b.lo) % 65536]

WideNeg(a) ==
    IF a.lo = 0 THEN [hi |-> -a.hi, lo |-> 0] ELSE [hi |-> -a.hi - 1, lo |-> 65536 - a.lo]

\* +quantity for a receipt, -quantity for a shipment
SignedQuantity(txn) ==
    IF txn.txn_type = "Warehousing" THEN Wide(txn.quantity) ELSE WideNeg(Wide(txn.quantity))

RECURSIVE NetMovement(_, _)
NetMovement(txns, id) ==
    IF txns = <<>> THEN Wide(0)
    ELSE IF Head(txns).item_id = id
    THEN WideAdd(SignedQuantity(Head(txns)), NetMovement(Tail(txns), id))
    ELSE NetMovement(Tail(txns), id)

IsBlank(s) == \A i \in 1..Len(s) : s[i] \in Whitespace

FormAfter(is_warehousing) == IF is_warehousing THEN warehousing_form' ELSE shipping_form'

OtherFormUnchanged(is_warehousing) ==
    IF is_warehousing THEN shipping_form' = shipping_form
    ELSE warehousing_form' = warehousing_form

\* the step is a click of Receive / Ship that returned (did not panic) and left
\* the given status in its form
MovementReturned(is_warehousing, idx, fill, status) ==
    /\ ~crashed'
    /\ selected_tab = MovementTab(is_warehousing)
    /\ FormAfter(is_warehousing).status = status
    /\ MovementClick(is_warehousing, idx, fill)

MovementFailed(is_warehousing, idx, fill) ==
    MovementReturned(is_warehousing, idx, fill, "Insufficient stock")

MovementSucceeded(is_warehousing, idx, fill) ==
    MovementReturned(is_warehousing, idx, fill, "Recorded")

Indices == 0..(MaxItems - 1)

\* C1: every catalog item's quantity_on_hand is >= 0 in every reachable state.
C1_StockNeverNegative ==
    \A i \in 1..Len(items) : items[i].quantity_on_hand >= 0

\* C2: a movement that fails with "Insufficient stock" leaves the catalog, the
\* transaction log and the id counter as they were; of the form only the status
\* string differs from what the user entered, and nothing else changes.
C2_FailedMovementChangesNothing ==
    [][\A is_warehousing \in BOOLEAN, idx \in Indices, fill \in MovementFills :
          MovementFailed(is_warehousing, idx, fill) =>
              /\ items' = items
              /\ transactions' = transactions
              /\ next_item_id' = next_item_id
              /\ initial_qty' = initial_qty
              /\ FormAfter(is_warehousing) =
                    [item_index |-> idx, quantity_text |-> fill.quantity_text,
                     note |-> fill.note, status |-> "Insufficient stock"]
              /\ OtherFormUnchanged(is_warehousing)
              /\ add_item_form' = add_item_form
              /\ selected_tab' = selected_tab
              /\ date_vars' = date_vars]_vars

\* a shipment was refused while the log already held a transaction
C2_Witness ==
    /\ ~crashed
    /\ shipping_form.status = "Insufficient stock"
    /\ Len(transactions) >= 1
    /\ Len(items) >= 2

\* C3: the k-th item of the catalog (the k-th successful AddItem) has id k and the
\* counter is the number of items plus one: failed attempts and movements consume
\* no id, and ids are pairwise distinct.
C3_IdsSequential ==
    /\ next_item_id = Len(items) + 1
    /\ \A k \in 1..Len(items) : items[k].id = k
    /\ \A j, k \in 1..Len(items) : j # k => items[j].id # items[k].id

\* two items added, a movement recorded, and the last AddItem attempt rejected
C3_Witness ==
    /\ Len(items) >= 2
    /\ Len(transactions) >= 1
    /\ add_item_form.status = "Name and SKU are required"

\* C4: a click of Add Item fails exactly when name or sku is blank (empty after
\* trimming), whatever the quantity text; a failure leaves catalog, id counter and
\* log unchanged, and otherwise the catalog grows by exactly one item.
C4_AddItemFailsIffBlank ==
    [][\A fill \in AddItemFills :
          AddItemClick(fill) =>
              IF IsBlank(fill.name) \/ IsBlank(fill.sku)
              THEN /\ add_item_form'.status = "Name and SKU are required"
                   /\ items' = items
                   /\ next_item_id' = next_item_id
                   /\ transactions' = transactions
              ELSE /\ add_item_form'.status = "Item added"
                   /\ Len(items') = Len(items) + 1
                   /\ SubSeq(items', 1, Len(items)) = items
                   /\ transactions' = transactions]_vars

\* an attempt with a whitespace-only name and an unparsable quantity was rejected
\* after an item had been added
C4_Witness ==
    /\ add_item_form.status = "Name and SKU are required"
    /\ add_item_form.name # <<>>
    /\ IsBlank(add_item_form.name)
    /\ ParseI32(Trim(add_item_form.quantity_text)).ok = FALSE
    /\ Len(items) >= 1

\* C5: a successful movement sets the item's quantity_on_hand to its old value
\* plus (Receipt) or minus (Shipment) the entered quantity, appends exactly one
\* transaction with the selected date, the item's id, the quantity, the note and
\* the kind, and changes nothing else of the ledger; stock never changes without
\* a transaction being appended in the same step.
C5_SuccessfulMovementIsExact ==
    [][/\ \A is_warehousing \in BOOLEAN, idx \in Indices, fill \in MovementFills :
            MovementSucceeded(is_warehousing, idx, fill) =>
                LET txn == [date |-> <<selected_year, selected_month, selected_day>>,
                            item_id |-> items[idx + 1].id,
                            quantity |-> ParseQty(fill.quantity_text),
                            note |-> fill.note,
                            txn_type |-> IF is_warehousing THEN "Warehousing"
                                         ELSE "Shipping"]
                IN /\ transactions' = Append(transactions, txn)
                   /\ Len(items') = Len(items)
                   /\ \A i \in 1..Len(items) :
                         i # idx + 1 => items'[i] = items[i]
                   /\ [items'[idx + 1] EXCEPT !.quantity_on_hand = 0] =
                         [items[idx + 1] EXCEPT !.quantity_on_hand = 0]
                   /\ Wide(items'[idx + 1].quantity_on_hand) =
                         WideAdd(Wide(items[idx + 1].quantity_on_hand),
                                 SignedQuantity(txn))
                   /\ next_item_id' = next_item_id
       /\ (\E i \in 1..Len(items) : items'[i] # items[i]) =>
              Len(transactions') = Len(transactions) + 1]_vars

\* C6: every logged transaction's quantity is a positive integer.
C6_LoggedQuantityPositive ==
    \A t \in 1..Len(transactions) : transactions[t].quantity > 0

\* C7: a movement whose quantity text is unparsable or zero is never rejected: it
\* is recorded as one transaction of quantity 0 and leaves the stock unchanged.
C7_ZeroMovementRecorded ==
    [][\A is_warehousing \in BOOLEAN, idx \in Indices, fill \in MovementFills :
          (MovementClick(is_warehousing, idx, fill) /\ ParseQty(fill.quantity_text) = 0) =>
              /\ ~crashed'
              /\ FormAfter(is_warehousing).status = "Recorded"
              /\ Len(transactions') = Len(transactions) + 1
              /\ transactions'[Len(transactions')].quantity = 0
              /\ items' = items]_vars

\* C8: the log is append-only: every step keeps the old log as a prefix of the new
\* one, which is longer by one exactly on a successful movement and by zero on
\* every other step.
C8_LogAppendOnly ==
    [][/\ Len(transactions') >= Len(transactions)
       /\ SubSeq(transactions', 1, Len(transactions)) = transactions
       /\ Len(transactions') =
             IF \E is_warehousing \in BOOLEAN, idx \in Indices, fill \in MovementFills :
                   MovementSucceeded(is_warehousing, idx, fill)
             THEN Len(transactions) + 1
             ELSE Len(transactions)]_vars

\* a receipt and a shipment are logged, entered under different dates, and the
\* user has since moved to the Add Item tab and added an item
C8_Witness ==
    /\ Len(transactions) >= 2
    /\ transactions[1].txn_type # transactions[2].txn_type
    /\ transactions[1].date # transactions[2].date
    /\ selected_tab = "AddItem"
    /\ Len(items) >= 2
    /\ items[Len(items)].id > transactions[2].item_id

\* C10: each item's quantity_on_hand is the quantity it was created with plus its
\* logged receipts minus its logged shipments, and every logged item_id is the id
\* of exactly one catalog item.
C10_LedgerConservation ==
    /\ \A i \in 1..Len(items) :
          Wide(items[i].quantity_on_hand) =
             WideAdd(Wide(initial_qty[i]), NetMovement(transactions, items[i].id))
    /\ \A t \in 1..Len(transactions) :
          Cardinality({i \in 1..Len(items) : items[i].id = transactions[t].item_id}) = 1

====
